---------------------------- MODULE Spec2Model ----------------------------
(***************************************************************************)
(* State-machine model of the duplicate-detection engine of                *)
(* duplicate_image_finder.py: file_generator (os.walk + suffix filter) and *)
(* find_duplicates (root check, per-file streaming hash, hash_dict, final  *)
(* selection of the buckets with more than one path).                      *)
(*                                                                         *)
(* File names are tuples of one-character strings so that Path.suffix and  *)
(* str.lower are computed, not assumed.  File contents are sequences of    *)
(* blocks of BlockBytes bytes; one f.read(65536) returns at most           *)
(* ChunkBlocks blocks.                                                     *)
(***************************************************************************)
EXTENDS Integers, Sequences, FiniteSets, TLC

\* ------------------------------------------------------------------ bounds
\* Longest file content, in blocks.
MaxBlocks == 3
\* Deepest directory path (in components) os.walk is allowed to list.
MaxDepth == 3
\* Bytes per content block of the model.
BlockBytes == 32768

\* --------------------------------------------------------------- constants
\* f.read(65536)
CHUNK_SIZE == 65536

ChunkBlocks == CHUNK_SIZE \div BlockBytes

\* SUPPORTED_IMAGE_EXTENSIONS = (".jpg", ".jpeg", ".png", ".webp")
SUPPORTED_IMAGE_EXTENSIONS ==
    { <<".", "j", "p", "g">>,
      <<".", "j", "p", "e", "g">>,
      <<".", "p", "n", "g">>,
      <<".", "w", "e", "b", "p">> }

\* ------------------------------------------------------------ str and Path
\* str.lower on the characters that occur in the model's names.
LowerChar(c) ==
    CASE c = "A" -> "a" [] c = "B" -> "b" [] c = "E" -> "e" [] c = "G" -> "g"
      [] c = "J" -> "j" [] c = "N" -> "n" [] c = "P" -> "p" [] c = "W" -> "w"
      [] OTHER -> c

\* Mutant of Lower: the suffix is compared as written.
LowerIdentity(s) == s

\* suffix.lower()
Lower(s) == [i \in 1..Len(s) |-> LowerChar(s[i])]

\* str.rfind, 1-based; 0 when ch does not occur.
RFind(s, ch) ==
    LET hits == {i \in 1..Len(s) : s[i] = ch}
    IN  IF hits = {} THEN 0 ELSE CHOOSE i \in hits : \A j \in hits : j <= i

\* PurePath.suffix: the last dot and what follows it, unless that dot is the
\* first or the last character of the name.
Suffix(name) ==
    LET i == RFind(name, ".")
    IN  IF 1 < i /\ i < Len(name) THEN SubSeq(name, i, Len(name)) ELSE <<>>

\* Path(root) / file
Join(dir, name) == [dir |-> dir, name |-> name]

\* The filter of file_generator.
IsSupported(path) == Lower(Suffix(path.name)) \in SUPPORTED_IMAGE_EXTENSIONS

\* ------------------------------------------------------------ file system
RootDir == <<>>
SubDir == <<"s">>
\* "up" is a symbolic link in s whose target is the root directory.
LinkName == "up"

N_a_jpg     == <<"a", ".", "j", "p", "g">>
N_b_PNG     == <<"b", ".", "P", "N", "G">>
N_w_WebP    == <<"w", ".", "W", "e", "b", "P">>
N_e_JPEG    == <<"e", ".", "J", "P", "E", "G">>
N_c_jpg_txt == <<"c", ".", "j", "p", "g", ".", "t", "x", "t">>
N_dot_jpg   == <<".", "j", "p", "g">>

\* The canonical directory a directory path denotes (symbolic links resolved).
RECURSIVE Resolve(_)
Resolve(dir) ==
    IF dir = <<>> THEN <<>>
    ELSE LET front == Resolve(SubSeq(dir, 1, Len(dir) - 1))
             last  == dir[Len(dir)]
         IN  IF last = LinkName THEN RootDir ELSE Append(front, last)

\* File names of a directory, in the order scandir returns them.
DirFiles(dir) ==
    IF Resolve(dir) = RootDir THEN << N_a_jpg, N_c_jpg_txt, N_b_PNG >>
    ELSE IF Resolve(dir) = SubDir THEN << N_dot_jpg, N_a_jpg, N_w_WebP, N_e_JPEG >>
    ELSE <<>>

\* Subdirectory entries of a directory, in scandir order.
DirSubdirs(dir) ==
    IF Resolve(dir) = RootDir THEN << [name |-> "s", islink |-> FALSE] >>
    ELSE IF Resolve(dir) = SubDir THEN << [name |-> LinkName, islink |-> TRUE] >>
    ELSE <<>>

Slots ==
    { Join(d, DirFiles(d)[i]) : d \in {RootDir}, i \in 1..Len(DirFiles(RootDir)) }
    \cup { Join(d, DirFiles(d)[i]) : d \in {SubDir}, i \in 1..Len(DirFiles(SubDir)) }

\* n blocks "X"
RECURSIVE Fill(_)
Fill(n) == IF n = 0 THEN <<>> ELSE Append(Fill(n - 1), "X")

Absent == [exists |-> FALSE, bytes |-> <<>>]
File(b) == [exists |-> TRUE, bytes |-> b]

Contents ==
    { <<>>, Fill(MaxBlocks - 1), Fill(MaxBlocks), Append(Fill(MaxBlocks - 1), "Y") }

FileStates(slot) ==
    IF slot.name \in {N_e_JPEG, N_dot_jpg, N_c_jpg_txt}
    THEN {Absent, File(Fill(MaxBlocks))}
    ELSE {Absent} \cup {File(b) : b \in Contents}


\* ------------------------------------------------------- hashing and index
Min(a, b) == IF a <= b THEN a ELSE b

\* f.read(65536) at offset pos (in blocks): at most one chunk, empty at EOF.
ReadChunk(bytes, pos) == SubSeq(bytes, pos + 1, Min(pos + ChunkBlocks, Len(bytes)))

\* Mutant of Update: only the first chunk is absorbed (an if in place of the while).
UpdateFirstChunkOnly(h, chunk) == IF h = <<>> THEN chunk ELSE h

\* hasher.update(chunk): the hasher has absorbed the concatenation so far.
Update(h, chunk) == h \o chunk

BlockCode(b) == IF b = "X" THEN 1 ELSE 2

\* hasher.hexdigest(): a collision-free digest of the absorbed blocks (the
\* base-3 numeral of the block codes; SHA-256 collisions are excluded).
RECURSIVE HexDigest(_)
HexDigest(h) ==
    IF h = <<>> THEN 0
    ELSE 3 * HexDigest(SubSeq(h, 1, Len(h) - 1)) + BlockCode(h[Len(h)])

\* hash_dict is an insertion-ordered mapping: a sequence of (hash, paths).
HasKey(d, h) == \E i \in 1..Len(d) : d[i].hash = h

\* Mutant of AppendPath: the path is put at the front of its bucket.
PrependPath(paths, p) == <<p>> \o paths

\* hash_dict[file_hash].append(file_path)
AppendPath(paths, p) == Append(paths, p)

\* Mutant of Record: the else branch runs even when the key is present.
RecordOverwrite(d, h, p) ==
    IF HasKey(d, h)
    THEN [i \in 1..Len(d) |->
            IF d[i].hash = h THEN [d[i] EXCEPT !.paths = <<p>>] ELSE d[i]]
    ELSE Append(d, [hash |-> h, paths |-> <<p>>])

\* Lines 59-62: append to the bucket of file_hash, or create it.
Record(d, h, p) ==
    IF HasKey(d, h)
    THEN [i \in 1..Len(d) |->
            IF d[i].hash = h THEN [d[i] EXCEPT !.paths = AppendPath(@, p)] ELSE d[i]]
    ELSE Append(d, [hash |-> h, paths |-> <<p>>])

\* hash_dict.values()
Values(d) == [i \in 1..Len(d) |-> d[i].paths]

\* Mutant of IsDuplicateGroup: every non-empty bucket is emitted.
IsNonEmptyGroup(file_list) == Len(file_list) > 0

\* len(file_list) > 1
IsDuplicateGroup(file_list) == Len(file_list) > 1

\* Lines 68-70: the buckets with more than one path, in dict order.
Duplicates(d) == SelectSeq(Values(d), IsDuplicateGroup)

\* Line 72 returns duplicates alone: the returned value carries no error records.
ReturnedErrors == <<>>

\* Mutant of IsDir: the root check is skipped.
IsDirUnchecked(kind) == TRUE

\* target_dir.is_dir()
IsDir(kind) == kind = "dir"

\* Mutant of followlinks: os.walk(target_dir, followlinks=True).
followlinks_set == TRUE

\* os.walk(target_dir): followlinks keeps its default.
followlinks == FALSE

\* Mutant of Caught: the clause names an exception open and read do not raise.
CaughtNever(exc) == exc = "ValueError"

\* except OSError
Caught(exc) == exc = "OSError"

\* Mutant of Close: the handle is left open (open without with).
CloseLeak(handles, p) == handles

\* Leaving the with block closes f.
Close(handles, p) == handles \ {p}

\* logger.info(f"... {file_path}")
LogInfo(lg, p) == Append(lg, [level |-> "INFO", path |-> p])

\* Mutant of LogError: the handler swallows the error without reporting it.
LogErrorDropped(lg, p) == lg

\* logger.error(f"... {file_path} - {e}")
LogError(lg, p) == Append(lg, [level |-> "ERROR", path |-> p])

Reverse(s) == [i \in 1..Len(s) |-> s[Len(s) + 1 - i]]

\* ------------------------------------------------------------------- state
VARIABLES
    rootKind,    \* what target_dir is: "dir", "file" or "missing"
    fs,          \* slot -> [exists, bytes]: the files under the root
    pc,          \* "start", "iter", "open", "read", "done", "raised"
    stack,       \* os.walk: directories still to list (top is the last)
    curdir,      \* os.walk: the directory whose files are being iterated
    files,       \* os.walk: file names of curdir not yet taken
    file_path,   \* the loop variable of find_duplicates
    fopen,       \* file handles currently open
    pos,         \* read offset of f, in blocks
    hasher,      \* blocks absorbed by hasher
    hash_dict,   \* insertion-ordered digest -> paths
    duplicates,  \* the list find_duplicates returns
    log,         \* records emitted through logger
    raised,      \* exception that escaped find_duplicates, or "none"
    listed,      \* history: directories handed to scandir, and whether it listed them
    opened,      \* history: paths handed to open
    yielded,     \* history: paths produced by file_generator
    failed       \* history: paths whose open or read raised OSError

vars == << rootKind, fs, pc, stack, curdir, files, file_path, fopen, pos, hasher,
           hash_dict, duplicates, log, raised, listed, opened, yielded, failed >>

NoPath == Join(<<>>, <<>>)

Bytes(path) == fs[Join(Resolve(path.dir), path.name)].bytes

\* The state at the call of find_duplicates, before its first line.
Entry ==
    /\ pc = "start"
    /\ stack = <<>>
    /\ curdir = RootDir
    /\ files = <<>>
    /\ file_path = NoPath
    /\ fopen = {}
    /\ pos = 0
    /\ hasher = <<>>
    /\ hash_dict = <<>>
    /\ duplicates = <<>>
    /\ log = <<>>
    /\ raised = "none"
    /\ listed = <<>>
    /\ opened = <<>>
    /\ yielded = <<>>
    /\ failed = <<>>

\* Any root, and under a directory root any choice of files and contents.
Init ==
    /\ rootKind \in {"dir", "file", "missing"}
    /\ fs \in [Slots -> {Absent} \cup {File(b) : b \in Contents}]
    /\ \A s \in Slots : fs[s] \in FileStates(s)
    /\ rootKind # "dir" => \A s \in Slots : fs[s] = Absent
    /\ Entry

\* Any root, and under a directory root any choice of files, each of full length.
InitTree ==
    /\ rootKind \in {"dir", "file", "missing"}
    /\ fs \in [Slots -> {Absent, File(Fill(MaxBlocks))}]
    /\ rootKind # "dir" => \A s \in Slots : fs[s] = Absent
    /\ Entry

\* Lines 44-48: the root check, then the empty index.
Start ==
    /\ pc = "start"
    /\ IF ~IsDir(rootKind)
       THEN /\ pc' = "raised"
            /\ raised' = "ValueError"
            /\ UNCHANGED stack
       ELSE /\ pc' = "iter"
            /\ stack' = <<RootDir>>
            /\ UNCHANGED raised
    /\ hash_dict' = <<>>
    /\ duplicates' = <<>>
    /\ UNCHANGED << rootKind, fs, curdir, files, file_path, fopen, pos, hasher,
                    log, listed, opened, yielded, failed >>

\* os.walk lists the next directory: its files become the current listing and
\* its subdirectories are pushed, symbolic links only when followlinks is set.
WalkDir ==
    /\ pc = "iter"
    /\ files = <<>>
    /\ stack # <<>>
    /\ LET top  == stack[Len(stack)]
           rest == SubSeq(stack, 1, Len(stack) - 1)
           descend(e) == followlinks \/ ~e.islink
           subs == SelectSeq(DirSubdirs(top), descend)
           here(n) == fs[Join(Resolve(top), n)].exists
       IN  /\ Len(top) <= MaxDepth    \* the model lists no deeper path
           /\ \/ /\ rootKind = "dir"
                 /\ listed' = Append(listed, [dir |-> top, ok |-> TRUE])
                 /\ curdir' = top
                 /\ files' = SelectSeq(DirFiles(top), here)
                 /\ stack' = rest \o Reverse([i \in 1..Len(subs) |-> Append(top, subs[i].name)])
              \/ \* scandir raised OSError: os.walk (onerror=None) skips the directory
                 /\ listed' = Append(listed, [dir |-> top, ok |-> FALSE])
                 /\ stack' = rest
                 /\ UNCHANGED << curdir, files >>
    /\ UNCHANGED << rootKind, fs, pc, file_path, fopen, pos, hasher, hash_dict,
                    duplicates, log, raised, opened, yielded, failed >>

\* The generator's filter rejects the next file name.
SkipFile ==
    /\ pc = "iter"
    /\ files # <<>>
    /\ ~IsSupported(Join(curdir, Head(files)))
    /\ files' = Tail(files)
    /\ UNCHANGED << rootKind, fs, pc, stack, curdir, file_path, fopen, pos, hasher,
                    hash_dict, duplicates, log, raised, listed, opened, yielded, failed >>

\* The generator yields the next candidate; lines 52-53 run.
YieldFile ==
    /\ pc = "iter"
    /\ files # <<>>
    /\ IsSupported(Join(curdir, Head(files)))
    /\ files' = Tail(files)
    /\ file_path' = Join(curdir, Head(files))
    /\ yielded' = Append(yielded, Join(curdir, Head(files)))
    /\ log' = LogInfo(log, Join(curdir, Head(files)))
    /\ hasher' = <<>>
    /\ pc' = "open"
    /\ UNCHANGED << rootKind, fs, stack, curdir, fopen, pos, hash_dict, duplicates,
                    raised, listed, opened, failed >>

\* Lines 64-66, or the exception leaves the function when no clause matches.
OnOSError ==
    /\ failed' = Append(failed, file_path)
    /\ IF Caught("OSError")
       THEN /\ log' = LogError(log, file_path)
            /\ pc' = "iter"
            /\ UNCHANGED raised
       ELSE /\ raised' = "OSError"
            /\ pc' = "raised"
            /\ UNCHANGED log

\* Line 54: open(file_path, "rb") succeeds.
OpenOk ==
    /\ pc = "open"
    /\ opened' = Append(opened, file_path)
    /\ fopen' = fopen \cup {file_path}
    /\ pos' = 0
    /\ pc' = "read"
    /\ UNCHANGED << rootKind, fs, stack, curdir, files, file_path, hasher, hash_dict,
                    duplicates, log, raised, listed, yielded, failed >>

\* Line 54: open raises OSError.
OpenFail ==
    /\ pc = "open"
    /\ opened' = Append(opened, file_path)
    /\ OnOSError
    /\ UNCHANGED << rootKind, fs, stack, curdir, files, file_path, fopen, pos, hasher,
                    hash_dict, duplicates, listed, yielded >>

\* Lines 55-56: a non-empty chunk is read and absorbed.
ReadMore ==
    /\ pc = "read"
    /\ LET chunk == ReadChunk(Bytes(file_path), pos)
       IN  /\ chunk # <<>>
           /\ hasher' = Update(hasher, chunk)
           /\ pos' = pos + Len(chunk)
    /\ UNCHANGED << rootKind, fs, pc, stack, curdir, files, file_path, fopen,
                    hash_dict, duplicates, log, raised, listed, opened, yielded, failed >>

\* Lines 55-62: the empty chunk ends the loop, f is closed, the path is recorded.
ReadEOF ==
    /\ pc = "read"
    /\ ReadChunk(Bytes(file_path), pos) = <<>>
    /\ fopen' = Close(fopen, file_path)
    /\ hash_dict' = Record(hash_dict, HexDigest(hasher), file_path)
    /\ pc' = "iter"
    /\ UNCHANGED << rootKind, fs, stack, curdir, files, file_path, pos, hasher,
                    duplicates, log, raised, listed, opened, yielded, failed >>

\* Line 55: f.read raises OSError; the with block closes f on the way out.
ReadFail ==
    /\ pc = "read"
    /\ fopen' = Close(fopen, file_path)
    /\ OnOSError
    /\ UNCHANGED << rootKind, fs, stack, curdir, files, file_path, pos, hasher,
                    hash_dict, duplicates, listed, opened, yielded >>

\* Lines 68-72: the generator is exhausted; select the groups and return.
Finish ==
    /\ pc = "iter"
    /\ files = <<>>
    /\ stack = <<>>
    /\ duplicates' = Duplicates(hash_dict)
    /\ pc' = "done"
    /\ UNCHANGED << rootKind, fs, stack, curdir, files, file_path, fopen, pos, hasher,
                    hash_dict, log, raised, listed, opened, yielded, failed >>

Next ==
    \/ Start
    \/ WalkDir
    \/ SkipFile
    \/ YieldFile
    \/ OpenOk
    \/ OpenFail
    \/ ReadMore
    \/ ReadEOF
    \/ ReadFail
    \/ Finish

Spec == Init /\ [][Next]_vars

\* The program is sequential: a step it can take, it takes.  Termination is
\* checked over the trees of InitTree (contents do not steer the traversal).
FairSpec == InitTree /\ [][Next]_vars /\ WF_vars(Next)

\* ------------------------------------------------- vocabulary of the claims
Range(q) == {q[i] : i \in 1..Len(q)}

Count(x, q) == Cardinality({i \in 1..Len(q) : q[i] = x})

\* Names whose extension, written in lower case, is .jpg, .jpeg, .png or .webp
\* (listed by hand, independently of Suffix and Lower).
SupportedNames == {N_a_jpg, N_b_PNG, N_w_WebP, N_e_JPEG}

\* Names with another extension (.txt) or with none (a leading dot only).
UnsupportedNames == {N_c_jpg_txt, N_dot_jpg}

ListedOk(dir) == \E i \in 1..Len(listed) : listed[i] = [dir |-> dir, ok |-> TRUE]

\* Files of the tree that exist, carry a supported extension and lie in a
\* directory the traversal could list.
Candidates == {p \in Slots : fs[p].exists /\ p.name \in SupportedNames /\ ListedOk(p.dir)}

\* Candidates whose open and reads all succeeded.
Readable == {p \in Candidates : p \notin Range(failed)}

GroupsOf(p) == {g \in 1..Len(duplicates) : p \in Range(duplicates[g])}

GroupPaths == UNION {Range(duplicates[g]) : g \in 1..Len(duplicates)}

DictPaths == UNION {Range(hash_dict[i].paths) : i \in 1..Len(hash_dict)}

\* The last OSError hit file_path after at least one chunk had been absorbed.
FailedMidStream ==
    /\ pc = "iter"
    /\ failed # <<>>
    /\ failed[Len(failed)] = file_path
    /\ hasher # <<>>

\* ----------------------------------------------------------------------- C1
\* C1: when find_duplicates has returned, any two readable supported files with
\* byte-identical content lie together in exactly one returned group, and any
\* two members of one group have identical content.
C1_IdenticalContentGrouped ==
    pc = "done" =>
        /\ \A p, q \in Readable :
              (p # q /\ fs[p].bytes = fs[q].bytes) =>
                  /\ Cardinality(GroupsOf(p)) = 1
                  /\ GroupsOf(p) = GroupsOf(q)
        /\ \A g \in 1..Len(duplicates) :
              \A p, q \in Range(duplicates[g]) : Bytes(p) = Bytes(q)

\* Three identical multi-chunk files form the one group, while a readable file
\* that shares their first chunk but differs in the last block is in no group.
C1_Witness ==
    /\ pc = "done"
    /\ Len(duplicates) = 1
    /\ Len(duplicates[1]) = 3
    /\ \A p \in Range(duplicates[1]) : fs[p].bytes = Fill(MaxBlocks)
    /\ \E q \in Readable : fs[q].bytes = Append(Fill(MaxBlocks - 1), "Y")

\* ----------------------------------------------------------------------- C2
\* C2: every returned group has at least two paths, and a bucket that ends the
\* scan with one path is not among the returned groups.
C2_GroupsHaveTwo ==
    /\ \A g \in 1..Len(duplicates) : Len(duplicates[g]) >= 2
    /\ pc = "done" =>
          \A i \in 1..Len(hash_dict) :
              Len(hash_dict[i].paths) = 1 => hash_dict[i].paths \notin Range(duplicates)

\* A finished scan with read failures, a returned group and a one-path bucket.
C2_Witness ==
    /\ pc = "done"
    /\ failed # <<>>
    /\ duplicates # <<>>
    /\ \E i \in 1..Len(hash_dict) : Len(hash_dict[i].paths) = 1

\* ----------------------------------------------------------------------- C3
\* C3: a file with an unsupported extension is never yielded, never opened,
\* never indexed and never returned; once the traversal is over, every existing
\* file with a supported extension in any letter case, in a directory that was
\* listed, has been yielded.
C3_ExtensionFilter ==
    /\ \A p \in Range(yielded) \cup Range(opened) \cup DictPaths \cup GroupPaths
                \cup {q \in {file_path} : pc \in {"open", "read"}} :
          p.name \notin UnsupportedNames /\ p.name \in SupportedNames
    /\ pc = "done" => Candidates \subseteq Range(yielded)

\* A finished scan in which c.jpg.txt and .jpg hold the same bytes as two
\* grouped images and the upper-case b.PNG was yielded and grouped.
C3_Witness ==
    /\ pc = "done"
    /\ fs[Join(RootDir, N_c_jpg_txt)].exists
    /\ fs[Join(SubDir, N_dot_jpg)].exists
    /\ Join(RootDir, N_b_PNG) \in Range(yielded)
    /\ \E g \in 1..Len(duplicates) :
          /\ Join(RootDir, N_b_PNG) \in Range(duplicates[g])
          /\ Bytes(duplicates[g][1]) = fs[Join(RootDir, N_c_jpg_txt)].bytes
          /\ Bytes(duplicates[g][1]) = fs[Join(SubDir, N_dot_jpg)].bytes

\* ----------------------------------------------------------------------- C4
ErrorRecords(lg) == SelectSeq(lg, LAMBDA r : r.level = "ERROR")

\* C4 as claimed: a failed candidate is in no group and appears exactly once in
\* the error list of the returned result.
C4_ErrorListInResult ==
    pc = "done" =>
        \A p \in Range(failed) :
            /\ p \notin GroupPaths
            /\ Count(p, ReturnedErrors) = 1

\* C4 as amended: a failed candidate is in no bucket and no group, was handed to
\* open once, and is reported by exactly one ERROR log record carrying its path;
\* ERROR records are emitted for failed candidates only.
C4_FailedLoggedOnce ==
    /\ \A p \in Range(failed) :
          /\ p \notin DictPaths
          /\ p \notin GroupPaths
          /\ Count(p, opened) = 1
          /\ Count([level |-> "ERROR", path |-> p], log) = 1
    /\ Len(ErrorRecords(log)) = Len(failed)

\* A read error after a chunk was absorbed, when an earlier candidate had
\* failed too and another one had been indexed.
C4_Witness ==
    /\ FailedMidStream
    /\ Len(failed) >= 2
    /\ hash_dict # <<>>

\* ----------------------------------------------------------------------- C5
\* C5 as claimed: with an invalid root the call fails with NotADirectoryError
\* before any directory is listed or file opened.
C5_NotADirectoryError ==
    (rootKind # "dir" /\ pc # "start") =>
        /\ pc = "raised"
        /\ raised = "NotADirectoryError"
        /\ listed = <<>>
        /\ opened = <<>>

\* C5 as amended: with an invalid root the call fails with ValueError before
\* any directory is listed or file opened.
C5_ValueErrorBeforeTraversal ==
    (rootKind # "dir" /\ pc # "start") =>
        /\ pc = "raised"
        /\ raised = "ValueError"
        /\ listed = <<>>
        /\ opened = <<>>
        /\ yielded = <<>>

\* The call on a root that is a regular file has failed.
C5_Witness == rootKind = "file" /\ pc = "raised"

\* ----------------------------------------------------------------------- C6
\* Position of a path in the traversal (its first occurrence).
FirstIndex(p) ==
    CHOOSE i \in 1..Len(yielded) : yielded[i] = p /\ \A j \in 1..(i - 1) : yielded[j] # p

\* C6: no exception other than the root check's leaves the call; the step in
\* which a candidate's open or read fails leaves the index and the rest of the
\* traversal untouched and goes on with the loop; and when the call returns,
\* every candidate of the traversal was taken and is either failed or indexed.
C6_FailureNeverAborts ==
    [][ /\ raised' \in {"none", "ValueError"}
        /\ raised' = "ValueError" => rootKind # "dir"
        /\ failed' # failed =>
              /\ pc' = "iter"
              /\ hash_dict' = hash_dict
              /\ files' = files
              /\ stack' = stack
        /\ pc' = "done" =>
              /\ rootKind = "dir"
              /\ Candidates' \subseteq Range(yielded')
              /\ \A p \in Range(yielded') : p \in Range(failed') \/ p \in DictPaths'
      ]_vars

\* A returned scan in which a candidate failed between two candidates that
\* were both indexed.
C6_Witness ==
    /\ pc = "done"
    /\ \E i, k, j \in 1..Len(yielded) :
          /\ i < k /\ k < j
          /\ yielded[k] \in Range(failed)
          /\ yielded[i] \in DictPaths
          /\ yielded[j] \in DictPaths

\* ----------------------------------------------------------------------- C7
\* The candidates hashed successfully, in traversal order.
Hashed == SelectSeq(yielded, LAMBDA p : p \notin Range(failed))

\* The groups the traversal order and the contents determine: one per content
\* held by two or more hashed candidates, ordered by its first candidate, each
\* listing its candidates in traversal order.
ExpectedGroups ==
    LET same(p, q) == Bytes(p) = Bytes(q)
        isHead(p) ==
            /\ \A q \in Range(Hashed) : same(p, q) => FirstIndex(p) <= FirstIndex(q)
            /\ \E q \in Range(Hashed) : q # p /\ same(p, q)
        heads == SelectSeq(Hashed, isHead)
    IN  [k \in 1..Len(heads) |-> SelectSeq(Hashed, LAMBDA q : same(heads[k], q))]

\* C7: in the returned list the paths of a group are in traversal order, the
\* groups are in the order of their first members in the traversal, that first
\* member is the first hashed candidate with the group's content, and the list
\* is the one the traversal order determines.
C7_DiscoveryOrder ==
    pc = "done" =>
        /\ \A g \in 1..Len(duplicates) :
              \A a, b \in 1..Len(duplicates[g]) :
                  a < b => FirstIndex(duplicates[g][a]) < FirstIndex(duplicates[g][b])
        /\ \A g, h \in 1..Len(duplicates) :
              g < h => FirstIndex(duplicates[g][1]) < FirstIndex(duplicates[h][1])
        /\ \A g \in 1..Len(duplicates) :
              \A q \in Range(Hashed) :
                  Bytes(q) = Bytes(duplicates[g][1])
                      => FirstIndex(duplicates[g][1]) <= FirstIndex(q)
        /\ duplicates = ExpectedGroups

\* Two returned groups whose members interleave in the traversal, the second
\* one holding the content of the very first candidate, whose read failed.
C7_Witness ==
    /\ pc = "done"
    /\ Len(duplicates) = 2
    /\ FirstIndex(duplicates[2][1]) < FirstIndex(duplicates[1][2])
    /\ yielded[1] \in Range(failed)
    /\ Bytes(yielded[1]) = Bytes(duplicates[2][1])

\* ----------------------------------------------------------------------- C8
\* C8: at most one file is open at any moment, and only while the scan is
\* reading it: none is open when a candidate is taken, after a failed open or
\* read, or when the scan has returned.
C8_HandlesClosed ==
    /\ Cardinality(fopen) <= 1
    /\ pc = "read" => fopen = {file_path}
    /\ pc # "read" => fopen = {}

\* A read failed after a chunk was absorbed, after another file had been read
\* to its end, and no handle is open.
C8_Witness ==
    /\ FailedMidStream
    /\ hash_dict # <<>>
    /\ fopen = {}

\* ----------------------------------------------------------------------- C9
\* A call that fails the root check never starts the scan.
ScanState ==
    CASE pc = "start" -> "NotStarted"
      [] pc \in {"iter", "open", "read"} -> "Running"
      [] pc = "done" -> "Completed"
      [] pc = "raised" -> IF raised = "ValueError" THEN "NotStarted" ELSE "Aborted"

\* The file a path denotes once symbolic links are resolved.
Physical(p) == Join(Resolve(p.dir), p.name)

\* C9: the scan state only moves NotStarted -> Running -> Completed; no
\* directory is listed through the symbolic link to the root and no physical
\* file is yielded twice; and with a valid root the scan reaches Completed.
C9_TerminatesWithoutRevisit ==
    /\ [][ /\ \/ ScanState' = ScanState
              \/ << ScanState, ScanState' >> \in
                    { << "NotStarted", "Running" >>, << "Running", "Completed" >> }
           /\ \A i \in 1..Len(listed') : LinkName \notin Range(listed'[i].dir)
           /\ \A i, j \in 1..Len(yielded') :
                 i # j => Physical(yielded'[i]) # Physical(yielded'[j])
         ]_vars
    /\ (rootKind = "dir") ~> (pc = "done")

\* The scan completed after listing the root and s, the directory that holds
\* the link back to the root, and yielded files of both.
C9_Witness ==
    /\ pc = "done"
    /\ listed = << [dir |-> RootDir, ok |-> TRUE], [dir |-> SubDir, ok |-> TRUE] >>
    /\ \E p, q \in Range(yielded) : p.dir = RootDir /\ q.dir = SubDir

\* ---------------------------------------------------------------------- C10
IsPrefix(a, b) == Len(a) <= Len(b) /\ SubSeq(b, 1, Len(a)) = a

\* C10: between candidates the index holds exactly the candidates taken so far
\* whose hashing succeeded, each once and in the bucket keyed by the digest of
\* its content; buckets are non-empty and pairwise disjoint, every step keeps
\* each bucket as a prefix of itself, and no path is returned twice.
C10_IndexInvariant ==
    [][ /\ pc' \in {"iter", "done"} => DictPaths' = Range(yielded') \ Range(failed')
        /\ pc' \in {"open", "read"} =>
              DictPaths' = (Range(yielded') \ Range(failed')) \ {file_path'}
        /\ \A i \in 1..Len(hash_dict') :
              /\ hash_dict'[i].paths # <<>>
              /\ \A p \in Range(hash_dict'[i].paths) :
                    /\ hash_dict'[i].hash = HexDigest(Bytes(p))
                    /\ Count(p, hash_dict'[i].paths) = 1
              /\ \A j \in 1..Len(hash_dict') :
                    i # j => /\ hash_dict'[i].hash # hash_dict'[j].hash
                             /\ Range(hash_dict'[i].paths) \cap Range(hash_dict'[j].paths) = {}
        /\ Len(hash_dict) <= Len(hash_dict')
        /\ \A i \in 1..Len(hash_dict) :
              /\ hash_dict'[i].hash = hash_dict[i].hash
              /\ IsPrefix(hash_dict[i].paths, hash_dict'[i].paths)
        /\ \A g \in 1..Len(duplicates') :
              \A p \in Range(duplicates'[g]) :
                  /\ GroupsOf(p)' = {g}
                  /\ Count(p, duplicates'[g]) = 1
      ]_vars

\* Mid-scan, after a failure: two buckets, one of them already holding two
\* paths, with candidates still to come.
C10_Witness ==
    /\ pc = "iter"
    /\ files # <<>>
    /\ failed # <<>>
    /\ Len(hash_dict) = 2
    /\ Len(hash_dict[1].paths) = 2

=============================================================================
